---- MODULE Spec2Model ----
(***************************************************************************)
(* Portal-user provisioning of the CRM: the client workflow               *)
(* createPortalUser (src/src/lib/portalAuth.ts) and the stored procedures *)
(* clean_duplicate_usuarios and sync_user_after_auth_creation             *)
(* (src/database/migrations/fix_auth_sync.sql), over the tables           *)
(* auth.users, public.usuarios and public.clientes.                       *)
(*                                                                         *)
(* Every remote call is one atomic step at the server; the client code    *)
(* that follows the call up to the next await is part of the same action. *)
(* A remote call may answer, answer with an error result, or throw.       *)
(* The source declares no uniqueness constraint on usuarios.email and the *)
(* authentication provider is opaque: inserts and createUser are limited  *)
(* only by what the source shows (the primary key of usuarios).           *)
(***************************************************************************)
EXTENDS Integers, Sequences, FiniteSets, TLC

VARIABLES
    usuarios,      \* public.usuarios: set of rows [id, email, deleted, created_at]
    authUsers,     \* auth.users: set of rows [id, email]
    clientes,      \* public.clientes: id -> usuario_portal_id (Null when unset)
    nextId,        \* next identifier the authentication provider assigns
    clock,         \* NOW() of the database, stamps created_at
    pc,            \* per invocation slot: the await the invocation is at
    inv,           \* per slot: the parameters {email, clienteId} of the invocation
    authUserId,    \* per slot: const authUserId (line 78), Null before
    syncErr,       \* per slot: the synchronization error of lines 89/103, "" if none
    delOutcome,    \* per slot: how the compensating deleteUser ended, "" if not called
    lastOutcome,   \* per slot: how the latest remote call ended, "" before the first
    result,        \* per slot: what the invocation returned
    calls,         \* per slot: the remote calls issued, in order
    startActive,   \* per slot: non-deleted rows with the email when invoked
    wrote,         \* per slot: kinds of rows the invocation created or updated
    removed,       \* per slot: usuarios rows the invocation's deduplication deleted
    started,       \* number of invocations started so far
    initUnique,    \* whether the initial table had at most one active row per email
    cleanPre,      \* table before the last direct clean_duplicate_usuarios call
    cleanEmail,    \* its argument, "" before the first call
    cleanRuns,     \* number of direct clean_duplicate_usuarios calls
    test,          \* the testUserSync call: where it is, its argument, what it returned
    hook           \* useCreatePortalUser: the loading flag and its createUser calls

vars == <<usuarios, authUsers, clientes, nextId, clock, pc, inv, authUserId,
          syncErr, delOutcome, lastOutcome, result, calls, startActive, wrote, removed,
          started, initUnique, cleanPre, cleanEmail, cleanRuns, test, hook>>

wfVars == <<authUsers, clientes, nextId, clock, pc, inv, authUserId, syncErr,
            delOutcome, lastOutcome, result, calls, startActive, wrote, removed, started>>

-----------------------------------------------------------------------------
(* Bounds and universes *)

MaxInvocations == 2     \* invocations of createPortalUser in one behaviour
MaxCleanRows == 3       \* rows of usuarios a direct clean_duplicate_usuarios call sees
MaxCleanRuns == 2       \* direct calls of clean_duplicate_usuarios in one behaviour

Null == 0
Procs == {"p1", "p2"}
Emails == {"a@b.com", "x@y.com"}
Clientes == {"c-1"}                 \* the Customer rows that exist
ClienteIds == {"c-1", "c-9"}        \* customer references a caller may pass
InitIds == {1, 2}                   \* ids of the rows usuarios may hold at first
CleanIds == 1..MaxCleanRows

-----------------------------------------------------------------------------
(* public.usuarios and clean_duplicate_usuarios *)

Row(i, e, d, t) == [id |-> i, email |-> e, deleted |-> d, created_at |-> t]

\* WHERE email = p_email AND deleted_at IS NULL
ActiveRows(t, e) == {r \in t : r.email = e /\ ~r.deleted}

\* WHERE email = p_email (any soft-delete marker)
EmailRows(t, e) == {r \in t : r.email = e}

\* Statement 1 with the null test inverted (deleted_at IS NULL).
ActivePurged(t, e) == {r \in t : ~(r.email = e /\ ~r.deleted)}

\* Statement 1 (lines 8-9): DELETE ... WHERE email = p_email AND deleted_at IS NOT NULL.
\* The rows that are left.
SoftDeletedPurged(t, e) == {r \in t : ~(r.email = e /\ r.deleted)}

\* The subquery ordered ASC: the oldest active row is the one kept.
KeepIdsOldest(t, e) ==
    LET act == ActiveRows(t, e)
        oldest == {r \in act : \A q \in act : r.created_at <= q.created_at}
    IN  IF act = {} THEN {{}} ELSE {{r.id} : r \in oldest}

\* The subquery of statement 2 (lines 15-18): SELECT id ... WHERE email = p_email
\* AND deleted_at IS NULL ORDER BY created_at DESC LIMIT 1. Its possible results,
\* each a set of zero or one id: rows that tie on created_at may come in any order.
KeepIds(t, e) ==
    LET act == ActiveRows(t, e)
        newest == {r \in act : \A q \in act : r.created_at >= q.created_at}
    IN  IF act = {} THEN {{}} ELSE {{r.id} : r \in newest}

\* Statement 2 without its email filter.
SecondDeleteAnyEmail(r, e, keep) == r.id \notin keep

\* Statement 2 with IN for NOT IN.
SecondDeleteKept(r, e, keep) == r.email = e /\ r.id \in keep

\* The WHERE of statement 2 (lines 13-14): email = p_email AND id NOT IN (subquery).
SecondDeleteHits(r, e, keep) == r.email = e /\ r.id \notin keep

\* clean_duplicate_usuarios(p_email), lines 4-21: the tables it may leave.
CleanOutcomes(t, e) ==
    LET s1 == SoftDeletedPurged(t, e)
    IN  {{r \in s1 : ~SecondDeleteHits(r, e, keep)} : keep \in KeepIds(s1, e)}

\* The table with one row per identifier in S, row i as f[i] describes it.
TableOf(S, f) == {Row(i, f[i].email, f[i].deleted, f[i].created_at) : i \in S}

\* What a row may hold, created_at drawn from stamps.
RowData(stamps) == [email : Emails, deleted : BOOLEAN, created_at : stamps]

\* Tables over the identifiers ids whose rows were created one after the other
\* (created_at = id), with any email and soft-delete marker.
AgedTables(ids) ==
    UNION {{TableOf(S, f) : f \in {g \in [S -> RowData(ids)] :
                                      \A i \in S : g[i].created_at = i}} :
           S \in SUBSET ids}

\* Identifiers and timestamps handed out later are newer than all in ids.
After(ids) == (CHOOSE i \in ids : \A j \in ids : i >= j) + 1

AtMostOneActive(t) == \A e \in Emails : Cardinality(ActiveRows(t, e)) <= 1

-----------------------------------------------------------------------------
(* createPortalUser *)

Steps == {"dedup", "check", "create", "sync", "comp", "verify"}

NoResult == [success |-> FALSE, userId |-> Null, error |-> "", threw |-> FALSE]
Success(id) == [success |-> TRUE, userId |-> id, error |-> "", threw |-> FALSE]
Failure(msg) == [success |-> FALSE, userId |-> Null, error |-> msg, threw |-> FALSE]
Escaped(msg) == [success |-> FALSE, userId |-> Null, error |-> msg, threw |-> TRUE]

\* A try block that ends before the synchronization call.
InTryUntilSync(step) == step \in {"dedup", "check", "create"}

\* The statements of createPortalUser inside try { ... } (lines 28-138).
InTry(step) == step \in Steps

\* An exception raised at a step: caught by catch (lines 139-146) and returned as
\* {success: false, error: error.message}, or thrown past the function.
Throw(step, msg) == IF InTry(step) THEN Failure(msg) ELSE Escaped(msg)

\* .single() (lines 44, 119): the row when exactly one matches; otherwise no
\* data and error PGRST116 (no row, or more than one).
Single(rows) ==
    IF Cardinality(rows) = 1
    THEN [data |-> (CHOOSE r \in rows : TRUE).id, error |-> ""]
    ELSE [data |-> Null, error |-> "PGRST116"]

\* Lines 46-55 after the query answered: the error is any code but PGRST116 ->
\* throw; a row -> DuplicateEmail; else go on to createUser.
AfterCheck(q) ==
    IF q.error # "" /\ q.error # "PGRST116" THEN Throw("check", "CheckFailed")
    ELSE IF q.data # Null THEN Failure("DuplicateEmail")
    ELSE NoResult

\* Lines 33-36 with the error result rethrown.
AfterDedupFatal(o) == IF o = "ok" THEN NoResult ELSE Throw("dedup", "Unknown")

\* Lines 30-36 after the deduplication call: an error result is logged and
\* the workflow goes on; only an exception leaves the try block.
AfterDedup(o) == IF o = "throw" THEN Throw("dedup", "Unknown") ELSE NoResult

\* Lines 69-72 with the error logged and not thrown.
AfterCreateLogsError(o) ==
    CASE o = "nouser" -> Throw("create", "NoUser")
      [] o = "throw" -> Throw("create", "Unknown")
      [] OTHER -> NoResult

\* Lines 69-78 after createUser: an error result or an answer without user is
\* thrown; otherwise go on with authData.user.id.
AfterCreate(o) ==
    CASE o = "ok" -> NoResult
      [] o = "error" -> Throw("create", "AuthCreationFailed")
      [] o = "nouser" -> Throw("create", "NoUser")
      [] OTHER -> Throw("create", "Unknown")

\* Lines 103-112 without the compensation: success = false is thrown at once.
AfterSyncNoRollback(o, success) ==
    CASE o = "throw" -> "throw"
      [] o = "error" -> "comp"
      [] success -> "verify"
      [] OTHER -> "throw"

\* Lines 89-100 with the synchronization call issued again after an error.
AfterSyncRetry(o, success) ==
    CASE o = "throw" -> "throw"
      [] o = "error" -> "sync"
      [] success -> "verify"
      [] OTHER -> "comp"

\* Lines 89-112 after the synchronization call: where the workflow goes. An
\* error result (line 89) or success = false (line 103) leads to the
\* compensation, success to the verification, an exception to catch.
AfterSync(o, success) ==
    CASE o = "throw" -> "throw"
      [] o = "error" -> "comp"
      [] success -> "verify"
      [] OTHER -> "comp"

\* Line 121 left out: the verification result is not looked at.
VerifySkipped(q) == TRUE

\* Line 121: the verification passes when the query gave no error and a row.
VerifyPasses(q) == q.error = "" /\ q.data # Null

\* The INSERT with an identifier of its own instead of p_auth_user_id.
InsertProfileOwnId(t, id, e, now) == t \cup {Row(id + 100, e, FALSE, now)}

\* INSERT INTO public.usuarios (lines 69-85): id is the primary key.
InsertProfile(t, id, e, now) == t \cup {Row(id, e, FALSE, now)}

\* UPDATE public.clientes SET usuario_portal_id = ... WHERE id = p_cliente_id
\* (lines 88-93): no row matches an unknown p_cliente_id.
UpdateCliente(c, cid, id) == [k \in DOMAIN c |-> IF k = cid THEN id ELSE c[k]]

\* The procedure without the rollback of its block: a failure of the UPDATE
\* leaves the inserted row behind.
SyncOutcomesPartial(t, c, id, e, cid, now) ==
    {[usuarios |-> t, clientes |-> c, success |-> FALSE]}
    \cup (IF \E r \in t : r.id = id THEN {}
          ELSE {[usuarios |-> InsertProfile(t, id, e, now),
                 clientes |-> UpdateCliente(c, cid, id),
                 success |-> TRUE],
                [usuarios |-> InsertProfile(t, id, e, now),
                 clientes |-> c,
                 success |-> FALSE]})

\* sync_user_after_auth_creation (lines 59-107): the insert and the update commit
\* together and success is returned, or any error of either statement (a primary
\* key clash, any other constraint of the tables) is caught by EXCEPTION WHEN
\* OTHERS, the block is rolled back and success = false is returned.
SyncOutcomes(t, c, id, e, cid, now) ==
    {[usuarios |-> t, clientes |-> c, success |-> FALSE]}
    \cup (IF \E r \in t : r.id = id THEN {}
          ELSE {[usuarios |-> InsertProfile(t, id, e, now),
                 clientes |-> UpdateCliente(c, cid, id),
                 success |-> TRUE]})

\* A deleteUser exception that is rethrown instead of logged.
CompensationMasks(outcome, primary) ==
    IF outcome = "throw" THEN "DeleteFailed" ELSE primary

\* Lines 93-99 and 105-111: the compensating deleteUser sits in its own
\* try/catch, and whatever its outcome the synchronization error is thrown.
AfterCompensation(outcome, primary) == primary

Email(p) == inv[p].email

\* How a remote call ends for the client: it answers, answers with an error
\* result ({data: null, error}), or throws.
Outcomes == {"ok", "error", "throw"}

Return(p, r) ==
    /\ pc' = [pc EXCEPT ![p] = "done"]
    /\ result' = [result EXCEPT ![p] = r]

Goto(p, step) ==
    /\ pc' = [pc EXCEPT ![p] = step]
    /\ UNCHANGED result

Called(p, name) == calls' = [calls EXCEPT ![p] = Append(@, name)]

Ended(p, o) == lastOutcome' = [lastOutcome EXCEPT ![p] = o]

\* A call of createPortalUser(params) (line 22).
Invoke(p, e, c) ==
    /\ pc[p] \in {"idle", "done"}
    /\ started < MaxInvocations
    /\ started' = started + 1
    /\ pc' = [pc EXCEPT ![p] = "dedup"]
    /\ inv' = [inv EXCEPT ![p] = [email |-> e, clienteId |-> c]]
    /\ authUserId' = [authUserId EXCEPT ![p] = Null]
    /\ syncErr' = [syncErr EXCEPT ![p] = ""]
    /\ delOutcome' = [delOutcome EXCEPT ![p] = ""]
    /\ lastOutcome' = [lastOutcome EXCEPT ![p] = ""]
    /\ result' = [result EXCEPT ![p] = NoResult]
    /\ calls' = [calls EXCEPT ![p] = <<>>]
    /\ startActive' = [startActive EXCEPT ![p] = Cardinality(ActiveRows(usuarios, e))]
    /\ wrote' = [wrote EXCEPT ![p] = {}]
    /\ removed' = [removed EXCEPT ![p] = {}]
    /\ UNCHANGED <<usuarios, authUsers, clientes, nextId, clock, initUnique,
                   cleanPre, cleanEmail, cleanRuns, test, hook>>

\* Step 1 (lines 30-36): rpc('clean_duplicate_usuarios'); an error result is
\* logged and the workflow goes on.
Dedup(p) ==
    /\ pc[p] = "dedup"
    /\ Called(p, "dedup")
    /\ \E o \in Outcomes :
         /\ Ended(p, o)
         /\ IF o = "ok"
            THEN usuarios' \in CleanOutcomes(usuarios, Email(p))
            ELSE UNCHANGED usuarios
         /\ IF AfterDedup(o) = NoResult
            THEN Goto(p, "check")
            ELSE Return(p, AfterDedup(o))
    /\ removed' = [removed EXCEPT ![p] = usuarios \ usuarios']
    /\ UNCHANGED <<authUsers, clientes, nextId, clock, inv, authUserId, syncErr,
                   delOutcome, startActive, wrote, started, initUnique,
                   cleanPre, cleanEmail, cleanRuns, test, hook>>

\* Step 2 (lines 39-55): the existence query and what follows it.
CheckExisting(p) ==
    /\ pc[p] = "check"
    /\ Called(p, "check")
    /\ \E o \in Outcomes :
         LET r == IF o = "ok" THEN AfterCheck(Single(ActiveRows(usuarios, Email(p))))
                  ELSE IF o = "error" THEN AfterCheck([data |-> Null, error |-> "other"])
                  ELSE Throw("check", "Unknown")
         IN  /\ Ended(p, o)
             /\ IF r = NoResult THEN Goto(p, "create") ELSE Return(p, r)
    /\ UNCHANGED <<usuarios, authUsers, clientes, nextId, clock, inv, authUserId,
                   syncErr, delOutcome, startActive, wrote, removed, started,
                   initUnique, cleanPre, cleanEmail, cleanRuns, test, hook>>

\* Step 3 (lines 58-78): auth.admin.createUser. "nouser" is an answer without
\* error and without user (line 74).
CreateUser(p) ==
    /\ pc[p] = "create"
    /\ Called(p, "createUser")
    /\ \E o \in Outcomes \cup {"nouser"} :
         /\ Ended(p, o)
         /\ IF o = "ok"
            THEN /\ authUsers' = authUsers \cup {[id |-> nextId, email |-> Email(p)]}
                 /\ authUserId' = [authUserId EXCEPT ![p] = nextId]
                 /\ nextId' = nextId + 1
                 /\ wrote' = [wrote EXCEPT ![p] = @ \cup {"auth"}]
            ELSE UNCHANGED <<authUsers, authUserId, nextId, wrote>>
         /\ IF AfterCreate(o) = NoResult
            THEN Goto(p, "sync")
            ELSE Return(p, AfterCreate(o))
    /\ UNCHANGED <<usuarios, clientes, clock, inv, syncErr, delOutcome,
                   startActive, removed, started, initUnique, cleanPre,
                   cleanEmail, cleanRuns, test, hook>>

\* Step 4 (lines 81-112 up to the compensation): rpc('sync_user_after_auth_creation').
Sync(p) ==
    /\ pc[p] = "sync"
    /\ Called(p, "sync")
    /\ \E o \in Outcomes :
         \E s \in (IF o = "ok"
                   THEN SyncOutcomes(usuarios, clientes, authUserId[p], Email(p),
                                     inv[p].clienteId, clock)
                   ELSE {[usuarios |-> usuarios, clientes |-> clientes,
                          success |-> FALSE]}) :
            /\ Ended(p, o)
            /\ usuarios' = s.usuarios
            /\ clientes' = s.clientes
            /\ clock' = IF usuarios' # usuarios THEN clock + 1 ELSE clock
            /\ wrote' = [wrote EXCEPT ![p] = @
                            \cup (IF usuarios' # usuarios THEN {"usuarios"} ELSE {})
                            \cup (IF clientes' # clientes THEN {"clientes"} ELSE {})]
            /\ syncErr' = [syncErr EXCEPT ![p] =
                              CASE o = "error" -> "SyncError"
                                [] o = "ok" /\ ~s.success -> "SyncRejected"
                                [] OTHER -> @]
            /\ IF AfterSync(o, s.success) = "throw"
               THEN Return(p, Throw("sync", IF syncErr'[p] = "" THEN "Unknown"
                                            ELSE syncErr'[p]))
               ELSE Goto(p, AfterSync(o, s.success))
    /\ UNCHANGED <<authUsers, nextId, inv, authUserId, delOutcome, startActive,
                   removed, started, initUnique, cleanPre, cleanEmail, cleanRuns, test, hook>>

\* Step 5 (lines 92-99, 104-111): the compensating auth.admin.deleteUser, whose
\* error result is not looked at and whose exception is caught and logged; then
\* the synchronization error is thrown.
Compensate(p) ==
    /\ pc[p] = "comp"
    /\ Called(p, "deleteUser")
    /\ \E o \in Outcomes :
         /\ authUsers' = IF o = "ok"
                         THEN {u \in authUsers : u.id # authUserId[p]}
                         ELSE authUsers
         /\ delOutcome' = [delOutcome EXCEPT ![p] = o]
         /\ Ended(p, o)
         /\ Return(p, Throw("comp", AfterCompensation(o, syncErr[p])))
    /\ UNCHANGED <<usuarios, clientes, nextId, clock, inv, authUserId, syncErr,
                   startActive, wrote, removed, started, initUnique, cleanPre,
                   cleanEmail, cleanRuns, test, hook>>

\* Step 6 (lines 115-137): the verification query by id, then success.
Verify(p) ==
    /\ pc[p] = "verify"
    /\ Called(p, "verify")
    /\ \E o \in Outcomes :
         LET q == IF o = "ok" THEN Single({r \in usuarios : r.id = authUserId[p]})
                  ELSE [data |-> Null, error |-> "other"]
         IN  /\ Ended(p, o)
             /\ IF o = "throw" THEN Return(p, Throw("verify", "Unknown"))
                ELSE IF VerifyPasses(q)
                     THEN Return(p, Success(authUserId[p]))
                     ELSE Return(p, Throw("verify", "VerificationFailed"))
    /\ UNCHANGED <<usuarios, authUsers, clientes, nextId, clock, inv, authUserId,
                   syncErr, delOutcome, startActive, wrote, removed, started,
                   initUnique, cleanPre, cleanEmail, cleanRuns, test, hook>>

Idle == [p \in Procs |-> "idle"]

\* testUserSync returned nothing (the bare return of lines 191, 198, 211, and
\* the end of the catch block).
Undefined == [defined |-> FALSE, authId |-> Null, publicId |-> Null, idsMatch |-> FALSE]

\* The createUser calls of one mounted useCreatePortalUser that may overlap.
HookCalls == {"h1", "h2"}

\* useState(false) (line 153), no createUser call made yet.
HookIdle == [loading |-> FALSE,
             call |-> [h \in HookCalls |-> [pc |-> "idle", email |-> "",
                                             ret |-> NoResult]]]

TestIdle == [pc |-> "idle", email |-> "", authId |-> Null, listed |-> "",
             queried |-> "", ret |-> Undefined]

Init ==
    /\ usuarios \in AgedTables(InitIds)
    /\ authUsers = {}
    /\ clientes = [k \in Clientes |-> Null]
    /\ nextId = After(InitIds)
    /\ clock = After(InitIds)
    /\ pc = Idle
    /\ inv = [p \in Procs |-> [email |-> "", clienteId |-> ""]]
    /\ authUserId = [p \in Procs |-> Null]
    /\ syncErr = [p \in Procs |-> ""]
    /\ delOutcome = [p \in Procs |-> ""]
    /\ lastOutcome = [p \in Procs |-> ""]
    /\ result = [p \in Procs |-> NoResult]
    /\ calls = [p \in Procs |-> <<>>]
    /\ startActive = [p \in Procs |-> 0]
    /\ wrote = [p \in Procs |-> {}]
    /\ removed = [p \in Procs |-> {}]
    /\ started = 0
    /\ initUnique = AtMostOneActive(usuarios)
    /\ cleanPre = {}
    /\ cleanEmail = ""
    /\ cleanRuns = 0
    /\ test = TestIdle
    /\ hook = HookIdle

Next ==
    \E p \in Procs :
        \/ \E e \in Emails, c \in ClienteIds : Invoke(p, e, c)
        \/ Dedup(p)
        \/ CheckExisting(p)
        \/ CreateUser(p)
        \/ Sync(p)
        \/ Compensate(p)
        \/ Verify(p)

Spec == Init /\ [][Next]_vars

\* One remote call of the invocation in slot p answering (each step of lines
\* 28-138 is an awaited call).
Step(p) ==
    \/ Dedup(p)
    \/ CheckExisting(p)
    \/ CreateUser(p)
    \/ Sync(p)
    \/ Compensate(p)
    \/ Verify(p)

\* The workflow when every awaited remote call eventually returns.
FairSpec == Spec /\ \A p \in Procs : WF_vars(Step(p))

-----------------------------------------------------------------------------
(* clean_duplicate_usuarios called on its own, on any table *)

CleanCall(e) ==
    /\ cleanRuns < MaxCleanRuns
    /\ usuarios' \in CleanOutcomes(usuarios, e)
    /\ cleanPre' = usuarios
    /\ cleanEmail' = e
    /\ cleanRuns' = cleanRuns + 1
    /\ UNCHANGED <<initUnique, test, hook>>
    /\ UNCHANGED wfVars

InitClean ==
    /\ \E S \in SUBSET CleanIds : \E f \in [S -> RowData(CleanIds)] :
           usuarios = TableOf(S, f)
    /\ authUsers \in SUBSET {[id |-> 1, email |-> "a@b.com"]}
    /\ clientes \in [Clientes -> {Null, 1}]
    /\ nextId = After(CleanIds)
    /\ clock = After(CleanIds)
    /\ pc = Idle
    /\ inv = [p \in Procs |-> [email |-> "", clienteId |-> ""]]
    /\ authUserId = [p \in Procs |-> Null]
    /\ syncErr = [p \in Procs |-> ""]
    /\ delOutcome = [p \in Procs |-> ""]
    /\ lastOutcome = [p \in Procs |-> ""]
    /\ result = [p \in Procs |-> NoResult]
    /\ calls = [p \in Procs |-> <<>>]
    /\ startActive = [p \in Procs |-> 0]
    /\ wrote = [p \in Procs |-> {}]
    /\ removed = [p \in Procs |-> {}]
    /\ started = 0
    /\ initUnique = AtMostOneActive(usuarios)
    /\ cleanPre = {}
    /\ cleanEmail = ""
    /\ cleanRuns = 0
    /\ test = TestIdle
    /\ hook = HookIdle

NextClean == \E e \in Emails : CleanCall(e)

SpecClean == InitClean /\ [][NextClean]_vars

-----------------------------------------------------------------------------
(* Properties of createPortalUser, under Spec *)

\* The step in which the invocation of slot p returns to its caller.
Returns(p) == pc[p] # "done" /\ pc'[p] = "done"

SyncErrors == {"SyncError", "SyncRejected"}

\* C1: whenever createPortalUser returns success = true with userId X, an
\* AuthIdentity with id X exists, a usuarios row with id X and the given email
\* exists, and the Customer row clienteId has usuario_portal_id = X.
C1_SuccessLinksAll ==
    [][\A p \in Procs :
         (Returns(p) /\ result'[p].success) =>
             LET x == result'[p].userId
                 cid == inv[p].clienteId
             IN  /\ \E u \in authUsers' : u.id = x
                 /\ \E r \in usuarios' : r.id = x /\ r.email = Email(p)
                 /\ cid \in DOMAIN clientes'
                 /\ clientes'[cid] = x]_vars

\* C2: when createPortalUser returns after a failed synchronization step, no
\* AuthIdentity and no usuarios row with that email exists, however the
\* compensating deleteUser ended.
C2_NoResidueAfterSyncFailure ==
    [][\A p \in Procs :
         (Returns(p) /\ syncErr[p] \in SyncErrors) =>
             /\ ~\E u \in authUsers' : u.email = Email(p)
             /\ ~\E r \in usuarios' : r.email = Email(p)]_vars

C4_DuplicateStopsWorkflow ==
    \A p \in Procs :
        startActive[p] >= 1 =>
            /\ \A i \in 1..Len(calls[p]) :
                   calls[p][i] \notin {"createUser", "sync", "deleteUser"}
            /\ (pc[p] = "done" /\ result[p].error \notin {"Unknown", "CheckFailed"})
                   => result[p] = Failure("DuplicateEmail")

\* C5 as stated: an invocation that returns DuplicateEmail wrote nothing: it
\* deleted no usuarios row (soft-deleted ones included) and created or updated
\* no AuthIdentity, usuarios or clientes row.
C5_DuplicateWritesNothing ==
    \A p \in Procs :
        (pc[p] = "done" /\ result[p].error = "DuplicateEmail") =>
            wrote[p] = {} /\ removed[p] = {}

\* C5 as amended: an invocation that returns DuplicateEmail created or updated
\* no AuthIdentity, usuarios or clientes row, issued only the deduplication and
\* the existence query, and deleted only usuarios rows with its own email (the
\* deduplication step's deletions).
C5_DuplicateWritesOnlyDedup ==
    \A p \in Procs :
        (pc[p] = "done" /\ result[p].error = "DuplicateEmail") =>
            /\ wrote[p] = {}
            /\ calls[p] = <<"dedup", "check">>
            /\ \A r \in removed[p] : r.email = Email(p)

C5_Witness ==
    \E p \in Procs :
        /\ pc[p] = "done"
        /\ result[p].error = "DuplicateEmail"
        /\ removed[p] # {}
        /\ \E r \in usuarios : r.email # Email(p)

\* C9: createPortalUser never throws to its caller: every finished invocation
\* returned {success: true, userId} or {success: false, error}.
C9_NeverThrows ==
    \A p \in Procs :
        pc[p] = "done" =>
            /\ ~result[p].threw
            /\ result[p].success => (result[p].userId # Null /\ result[p].error = "")
            /\ ~result[p].success => (result[p].userId = Null /\ result[p].error # "")

C9_Witness ==
    \E p, q \in Procs :
        /\ pc[p] = "done" /\ result[p].error = "Unknown" /\ Len(calls[p]) >= 4
        /\ pc[q] = "done" /\ delOutcome[q] = "throw"

\* C10: when the synchronization step failed, the returned failure carries the
\* synchronization error, whether the compensating deleteUser succeeded,
\* answered with an error or threw.
C10_SyncErrorReported ==
    \A p \in Procs :
        (pc[p] = "done" /\ syncErr[p] \in SyncErrors) =>
            result[p] = Failure(syncErr[p])

C10_Witness ==
    \E p, q \in Procs :
        /\ pc[p] = "done" /\ syncErr[p] = "SyncRejected" /\ delOutcome[p] = "throw"
        /\ pc[q] = "done" /\ syncErr[q] = "SyncError" /\ delOutcome[q] \in {"ok", "error"}

-----------------------------------------------------------------------------
(* Properties of clean_duplicate_usuarios, under SpecClean *)

\* C6: for an email with more than one active row, clean_duplicate_usuarios
\* leaves exactly one row with that email, an active row of the table before
\* whose created_at is the greatest among its active rows.
C6_KeepsNewest ==
    LET act == ActiveRows(cleanPre, cleanEmail)
    IN  (cleanRuns >= 1 /\ Cardinality(act) > 1) =>
            \E r \in act :
                /\ EmailRows(usuarios, cleanEmail) = {r}
                /\ \A q \in act : r.created_at >= q.created_at

C6_Witness ==
    /\ cleanRuns >= 1
    /\ Cardinality(ActiveRows(cleanPre, cleanEmail)) = 3
    /\ \E r, q \in ActiveRows(cleanPre, cleanEmail) : r.created_at < q.created_at
    /\ Cardinality(EmailRows(usuarios, cleanEmail)) = 1

\* C7: for an email with at most one active row, clean_duplicate_usuarios
\* removes every soft-deleted row with that email and leaves the active row,
\* if any, as it was.
C7_PurgesSoftDeleted ==
    (cleanRuns >= 1 /\ Cardinality(ActiveRows(cleanPre, cleanEmail)) <= 1) =>
        EmailRows(usuarios, cleanEmail) = ActiveRows(cleanPre, cleanEmail)

C7_Witness ==
    /\ cleanRuns >= 1
    /\ Cardinality(ActiveRows(cleanPre, cleanEmail)) = 1
    /\ Cardinality(EmailRows(cleanPre, cleanEmail)) = 3
    /\ Cardinality(EmailRows(usuarios, cleanEmail)) = 1

\* A table clean_duplicate_usuarios(e) has nothing to do on.
Tidy(t, e) == EmailRows(t, e) = ActiveRows(t, e) /\ Cardinality(ActiveRows(t, e)) <= 1

\* C8: clean_duplicate_usuarios is idempotent: applied again with the same
\* email to a table it produced it leaves that table, and applied to a table
\* with no soft-deleted row and at most one active row for the email it
\* changes nothing.
C8_Idempotent ==
    /\ cleanRuns >= 1 => CleanOutcomes(usuarios, cleanEmail) = {usuarios}
    /\ \A e \in Emails : Tidy(usuarios, e) => CleanOutcomes(usuarios, e) = {usuarios}

C8_Witness ==
    /\ cleanRuns >= 1
    /\ Cardinality(ActiveRows(cleanPre, cleanEmail)) >= 2
    /\ usuarios # cleanPre
    /\ Tidy(usuarios, cleanEmail)

-----------------------------------------------------------------------------
(* Further properties of createPortalUser, under Spec *)

Has(p, name) == \E i \in 1..Len(calls[p]) : calls[p][i] = name

Count(p, name) == Cardinality({i \in 1..Len(calls[p]) : calls[p][i] = name})

LastCall(p) == IF calls[p] = <<>> THEN "" ELSE calls[p][Len(calls[p])]

\* C11: when createUser answered with an error or without a user, the
\* invocation has returned a failure, called neither the sync procedure nor
\* deleteUser, and created no AuthIdentity, usuarios row or Customer reference.
C11_CreateFailureStops ==
    \A p \in Procs :
        (LastCall(p) = "createUser" /\ lastOutcome[p] \in {"error", "nouser"}) =>
            /\ pc[p] = "done"
            /\ result[p] \in {Failure("AuthCreationFailed"), Failure("NoUser")}
            /\ calls[p] = <<"dedup", "check", "createUser">>
            /\ authUserId[p] = Null
            /\ wrote[p] = {}

C11_Witness ==
    \E p, q \in Procs :
        /\ pc[p] = "done" /\ result[p] = Failure("NoUser")
        /\ pc[q] = "done" /\ result[q] = Failure("AuthCreationFailed")

SyncStep(p) == pc[p] = "sync" /\ pc'[p] # "sync"

\* C14: sync_user_after_auth_creation is all-or-nothing: when it returns
\* success = false neither the usuarios row nor the change of the Customer's
\* usuario_portal_id is persisted; when it returns success = true the usuarios
\* row with id = p_auth_user_id exists.
C14_SyncAllOrNothing ==
    [][\A p \in Procs :
         SyncStep(p) =>
            /\ syncErr'[p] = "SyncRejected" =>
                  usuarios' = usuarios /\ clientes' = clientes
            /\ pc'[p] = "verify" =>
                  /\ \E r \in usuarios' : r.id = authUserId[p] /\ r.email = Email(p)
                  /\ clientes' = UpdateCliente(clientes, inv[p].clienteId,
                                               authUserId[p])]_vars

C14_Witness ==
    \E p, q \in Procs :
        /\ pc[p] = "done" /\ syncErr[p] = "SyncRejected"
        /\ Has(q, "verify") /\ \E r \in usuarios : r.id = authUserId[q]

\* C15: within one invocation the writes occur in the order AuthIdentity, then
\* usuarios row, then Customer: a usuarios row added by the workflow has the id
\* of an AuthIdentity created earlier in the same invocation, and a Customer's
\* usuario_portal_id is set only to the id of a usuarios row already inserted.
C15_WriteOrder ==
    [][/\ \A r \in usuarios' \ usuarios :
            \E p \in Procs :
               /\ SyncStep(p)
               /\ LastCall(p) = "createUser"
               /\ authUserId[p] # Null
               /\ r.id = authUserId[p]
               /\ \E u \in authUsers : u.id = r.id
       /\ \A k \in DOMAIN clientes :
            clientes'[k] # clientes[k] =>
               /\ \E r \in usuarios' : r.id = clientes'[k]
               /\ \E p \in Procs : SyncStep(p) /\ clientes'[k] = authUserId[p]
                                   /\ k = inv[p].clienteId]_vars

C15_Witness ==
    \E p \in Procs :
        /\ wrote[p] = {"auth", "usuarios", "clientes"}
        /\ \E k \in DOMAIN clientes : clientes[k] = authUserId[p]
        /\ \E r \in usuarios : r.id = authUserId[p]

CallNames == {"dedup", "check", "createUser", "sync", "deleteUser", "verify"}

\* C18: provided every remote call eventually returns, every invocation of
\* createPortalUser terminates, with one outcome that is set when it returns
\* and not before, and issues each of its remote calls at most once.
C18_TerminatesWithoutRetry ==
    /\ [](\A p \in Procs :
            /\ \A name \in CallNames : Count(p, name) <= 1
            /\ pc[p] \in Steps => result[p] = NoResult
            /\ pc[p] = "done" => result[p] # NoResult)
    /\ [][\A p \in Procs :
            result'[p] # result[p] => Returns(p) \/ pc[p] = "done"]_vars
    /\ \A p \in Procs : (pc[p] \in Steps) ~> (pc[p] = "done")

C18_Witness ==
    \E p, q \in Procs :
        /\ pc[p] = "done" /\ pc[q] = "done"
        /\ calls[p] = <<"dedup", "check", "createUser", "sync", "deleteUser">>
        /\ calls[q] = <<"dedup", "check", "createUser", "sync", "verify">>
        /\ result[q].success

\* C19: whenever createPortalUser returns success = false (its last remote
\* call having answered, with or without an error), no AuthIdentity and no
\* usuarios row created by that invocation remains and it has not changed the
\* Customer's usuario_portal_id.
C19_AllOrNothing ==
    [][\A p \in Procs :
         (Returns(p) /\ ~result'[p].success /\ lastOutcome'[p] # "throw") =>
            /\ authUserId'[p] # Null =>
                  /\ ~\E u \in authUsers' : u.id = authUserId'[p]
                  /\ ~\E r \in usuarios' : r.id = authUserId'[p]
            /\ "clientes" \notin wrote'[p]]_vars

-----------------------------------------------------------------------------
(* Frame of clean_duplicate_usuarios, under SpecClean *)

OtherEmail(t, e) == {r \in t : r.email # e}

\* C20: clean_duplicate_usuarios(email) changes only rows whose email is the
\* argument: every usuarios row with another email, every Customer and every
\* AuthIdentity is left as it was.
C20_CleanTouchesOnlyEmail ==
    [][cleanRuns' # cleanRuns =>
          /\ OtherEmail(usuarios', cleanEmail') = OtherEmail(usuarios, cleanEmail')
          /\ UNCHANGED <<authUsers, clientes>>]_vars

C20_Witness ==
    /\ cleanRuns >= 1
    /\ usuarios # cleanPre
    /\ OtherEmail(usuarios, cleanEmail) # {}
    /\ \E r \in OtherEmail(usuarios, cleanEmail) : r.deleted
    /\ authUsers # {}
    /\ \E k \in DOMAIN clientes : clientes[k] # Null

-----------------------------------------------------------------------------
(* testUserSync, on any tables *)

\* Everything testUserSync leaves alone: it only reads (lines 187-207).
notTest == <<usuarios, authUsers, clientes, nextId, clock, pc, inv,
             authUserId, syncErr, delOutcome, lastOutcome, result, calls,
             startActive, wrote, removed, started, initUnique, cleanPre,
             cleanEmail, cleanRuns, hook>>

\* The comparison left out: every pair reported as matching.
IdsMatchAlways(authId, publicId) == TRUE

\* Lines 218, 226: authUser.id === publicUser.id.
IdsMatch(authId, publicId) == authId = publicId

\* A call of testUserSync(email) (line 184).
TestInvoke(e) ==
    /\ test.pc = "idle"
    /\ test' = [TestIdle EXCEPT !.pc = "list", !.email = e]
    /\ UNCHANGED notTest

\* Lines 187-199: auth.admin.listUsers() and find(u => u.email === email),
\* which takes the first user of the list with that email.
TestListUsers ==
    /\ test.pc = "list"
    /\ \E o \in Outcomes :
         LET found == {u \in authUsers : u.email = test.email}
         IN  IF o = "ok" /\ found # {}
             THEN \E u \in found :
                     test' = [test EXCEPT !.pc = "query", !.listed = o, !.authId = u.id]
             ELSE test' = [test EXCEPT !.pc = "done", !.listed = o, !.ret = Undefined]
    /\ UNCHANGED notTest

\* Lines 202-227: the usuarios query and the returned comparison.
TestQueryProfile ==
    /\ test.pc = "query"
    /\ \E o \in Outcomes :
         LET q == IF o = "ok" THEN Single(ActiveRows(usuarios, test.email))
                  ELSE [data |-> Null, error |-> "other"]
         IN  test' = [test EXCEPT
                        !.pc = "done", !.queried = o,
                        !.ret = IF o = "throw" \/ q.error # "" THEN Undefined
                                ELSE [defined |-> TRUE, authId |-> test.authId,
                                      publicId |-> q.data,
                                      idsMatch |-> IdsMatch(test.authId, q.data)]]
    /\ UNCHANGED notTest

TestIds == {1, 7}    \* ids of the AuthIdentities that may exist

InitTest ==
    /\ usuarios \in AgedTables(InitIds)
    /\ \E S \in SUBSET TestIds : \E f \in [S -> Emails] :
           authUsers = {[id |-> i, email |-> f[i]] : i \in S}
    /\ clientes \in [Clientes -> {Null} \cup InitIds]
    /\ nextId = After(InitIds \cup TestIds)
    /\ clock = After(InitIds)
    /\ pc = Idle
    /\ inv = [p \in Procs |-> [email |-> "", clienteId |-> ""]]
    /\ authUserId = [p \in Procs |-> Null]
    /\ syncErr = [p \in Procs |-> ""]
    /\ delOutcome = [p \in Procs |-> ""]
    /\ lastOutcome = [p \in Procs |-> ""]
    /\ result = [p \in Procs |-> NoResult]
    /\ calls = [p \in Procs |-> <<>>]
    /\ startActive = [p \in Procs |-> 0]
    /\ wrote = [p \in Procs |-> {}]
    /\ removed = [p \in Procs |-> {}]
    /\ started = 0
    /\ initUnique = AtMostOneActive(usuarios)
    /\ cleanPre = {}
    /\ cleanEmail = ""
    /\ cleanRuns = 0
    /\ test = TestIdle
    /\ hook = HookIdle

NextTest ==
    \/ \E e \in Emails : TestInvoke(e)
    \/ TestListUsers
    \/ TestQueryProfile

SpecTest == InitTest /\ [][NextTest]_vars

\* What a finished testUserSync call returned, against the tables it read.
TestCompares ==
    LET act == ActiveRows(usuarios, test.email)
        r == test.ret
    IN  test.pc = "done" =>
          /\ r.defined =>
               /\ \E u \in authUsers : u.email = test.email /\ u.id = r.authId
               /\ \E x \in act : act = {x} /\ x.id = r.publicId
               /\ r.idsMatch <=> (r.authId = r.publicId)
          /\ (test.listed = "ok" /\ test.queried = "ok" /\ Cardinality(act) = 1) =>
               r.defined
          /\ (test.listed = "ok" /\ Cardinality(act) = 1
              /\ \E u \in authUsers : u.email = test.email) =>
               test.queried # ""

\* C13: testUserSync writes nothing; what it returns has idsMatch = true
\* exactly when the AuthIdentity found for the email and the active usuarios row
\* found for it have the same id; and when both lookups answer, an
\* AuthIdentity with the email exists and one active row is found, it returns
\* that comparison (false for different ids).
C13_DiagnosticCompares ==
    [][UNCHANGED <<usuarios, authUsers, clientes>> /\ TestCompares']_vars

C13_Witness ==
    /\ test.pc = "done"
    /\ test.ret.defined
    /\ ~test.ret.idsMatch
    /\ test.ret.authId # test.ret.publicId

-----------------------------------------------------------------------------
(* useCreatePortalUser, for every way createPortalUser can settle *)

\* Everything the hook leaves alone.
notHook == <<usuarios, authUsers, clientes, nextId, clock, pc, inv,
             authUserId, syncErr, delOutcome, lastOutcome, result, calls,
             startActive, wrote, removed, started, initUnique, cleanPre,
             cleanEmail, cleanRuns, test>>

\* How the awaited createPortalUser settles: its success object, a structured
\* failure, or an exception (with or without a message).
Settles ==
    {Success(nextId)}
    \cup {Failure(m) : m \in {"DuplicateEmail", "SyncError"}}
    \cup {Escaped(m) : m \in {"", "NetworkDown"}}

\* A finally block that is skipped when the catch block ran.
LoadingAfterNoFinally(r) == r.threw

\* Lines 173-175: finally { setLoading(false) }, whatever createPortalUser did.
LoadingAfter(r) == FALSE

\* Lines 159-172: what createUser resolves to: the result object as it is, or
\* for an exception {success: false, error: error.message || default}.
HookResult(r) ==
    IF r.threw
    THEN Failure(IF r.error = "" THEN "Erro inesperado ao criar portal" ELSE r.error)
    ELSE r

\* Lines 155-159: createUser(params) sets loading and awaits createPortalUser.
HookStart(h, e) ==
    /\ hook.call[h].pc \in {"idle", "done"}
    /\ hook' = [loading |-> TRUE,
                call |-> [hook.call EXCEPT ![h] = [pc |-> "await", email |-> e,
                                                  ret |-> NoResult]]]
    /\ UNCHANGED notHook

\* Lines 159-176: createPortalUser settles; the rest of createUser runs without
\* another await: toast, the value returned, then the finally block.
HookSettle(h) ==
    /\ hook.call[h].pc = "await"
    /\ \E r \in Settles :
         hook' = [loading |-> LoadingAfter(r),
                  call |-> [hook.call EXCEPT ![h].pc = "done",
                                             ![h].ret = HookResult(r)]]
    /\ UNCHANGED notHook

InitHook ==
    /\ usuarios = {}
    /\ authUsers = {}
    /\ clientes = [k \in Clientes |-> Null]
    /\ nextId = After(InitIds)
    /\ clock = After(InitIds)
    /\ pc = Idle
    /\ inv = [p \in Procs |-> [email |-> "", clienteId |-> ""]]
    /\ authUserId = [p \in Procs |-> Null]
    /\ syncErr = [p \in Procs |-> ""]
    /\ delOutcome = [p \in Procs |-> ""]
    /\ lastOutcome = [p \in Procs |-> ""]
    /\ result = [p \in Procs |-> NoResult]
    /\ calls = [p \in Procs |-> <<>>]
    /\ startActive = [p \in Procs |-> 0]
    /\ wrote = [p \in Procs |-> {}]
    /\ removed = [p \in Procs |-> {}]
    /\ started = 0
    /\ initUnique = TRUE
    /\ cleanPre = {}
    /\ cleanEmail = ""
    /\ cleanRuns = 0
    /\ test = TestIdle
    /\ hook = HookIdle

NextHook ==
    \E h \in HookCalls :
        \/ \E e \in Emails : HookStart(h, e)
        \/ HookSettle(h)

SpecHook == InitHook /\ [][NextHook]_vars

HookStarts(h) == hook.call[h].pc # "await" /\ hook'.call[h].pc = "await"
HookCompletes(h) == hook.call[h].pc = "await" /\ hook'.call[h].pc = "done"

\* C21: loading is true once createUser has started and false again once it
\* has completed, whether createPortalUser succeeded, failed or threw; and
\* createUser always resolves to a result object, never rejects.
C21_LoadingResetAndNeverRejects ==
    [][\A h \in HookCalls :
         /\ HookStarts(h) => hook'.loading
         /\ HookCompletes(h) =>
               /\ ~hook'.loading
               /\ ~hook'.call[h].ret.threw
               /\ hook'.call[h].ret.success \/ hook'.call[h].ret.error # ""
         /\ hook'.loading => \E g \in HookCalls : hook'.call[g].pc = "await"]_vars

C21_Witness ==
    /\ ~hook.loading
    /\ hook.call["h1"].pc = "done"
    /\ hook.call["h1"].ret = Failure("Erro inesperado ao criar portal")
    /\ hook.call["h2"].pc = "done"
    /\ hook.call["h2"].ret.success

====
